---- MODULE Spec2Model ----
(***************************************************************************)
(* Log-structured key-value store (package datastore) of                   *)
(* mikhmol/Architecture_Lab4: segment files of length-prefixed frames, two *)
(* in-memory indices, rotation of the active segment and the background    *)
(* merger, under the engine's readers-writer lock and read semaphore.      *)
(* Files are modelled as byte sequences; offsets are byte offsets.         *)
(***************************************************************************)
EXTENDS Integers, Sequences, FiniteSets, Bags, TLC

(* ---------- bounds of the model ---------- *)
MaxPuts == 2            \* Put calls per behaviour
MaxReaders == 1         \* Get calls in flight at once
MaxOpens == 1           \* close-and-reopen steps per behaviour
MaxFaults == 1          \* failing I/O calls per behaviour
FaultPuts == 1          \* Put calls per behaviour when I/O calls may fail
MergePuts == 4          \* Put calls per behaviour of the rotate-on-every-Put scenario
PoolReaders == 22       \* Get calls in flight at once in the semaphore scenario
LockPuts == 2           \* Put calls per behaviour of the lock scenario
LockReaders == 2        \* Get calls in flight at once in the lock scenario
BigPuts == 2
HealthRequests == 4
LivePuts == 2
LiveGets == 2
LiveReaders == 2
MinCalls == 1           \* calls of getMinByteServer per behaviour of its unit test
MaxRequests == 3        \* requests to the balancer per behaviour
MaxConns == 2           \* requests in the balancer's handler at once
SeqRequests == 5        \* requests of the one-after-another scenario (TestBalancer)

(* ---------- program constants ---------- *)
workerPoolSize == 20
bufSize == 8192

(* keys and values are one-byte strings *)
Keys == {<<1>>, <<2>>}
Values == {<<1>>, <<2>>}
(* the distinct keys of the rotate-on-every-Put scenario (TestDb_Put_Merge) *)
MergeKeys == {<<1>>, <<2>>, <<3>>, <<4>>}
(* a key of the first directory and a key that is never written *)
PoolKeys == {<<1>>, <<3>>}
(* the segment size ceilings an engine is opened with: 1 (as in             *)
(* TestDb_Put_Merge) and the length of exactly one frame                    *)
Ceilings == {1, 14}

Min(a, b) == IF a < b THEN a ELSE b

(* ---------- record codec ---------- *)
LE32(n) == << n % 256, (n \div 256) % 256, (n \div 65536) % 256, (n \div 16777216) % 256 >>

Uint32(b) == b[1] + 256 * b[2] + 65536 * b[3] + 16777216 * b[4]

Encode(key, value) ==
    LE32(Len(key) + Len(value) + 12) \o LE32(Len(key)) \o key \o LE32(Len(value)) \o value

NoEntry == [ok |-> FALSE, key |-> <<>>, value |-> <<>>]

Decode(input) ==
    IF Len(input) < 8 \/ Uint32(input) # Len(input) THEN NoEntry
    ELSE LET kl == Uint32(SubSeq(input, 5, 8)) IN
         IF kl + 12 > Len(input) THEN NoEntry
         ELSE LET vl == Uint32(SubSeq(input, kl + 9, kl + 12)) IN
              IF kl + 12 + vl > Len(input) THEN NoEntry
              ELSE [ok |-> TRUE,
                    key |-> SubSeq(input, 9, kl + 8),
                    value |-> SubSeq(input, kl + 13, kl + 12 + vl)]

(* readValue on the bytes that follow the seek position *)
readValue(in) ==
    IF Len(in) < 8 THEN [err |-> "io", value |-> <<>>]
    ELSE LET keySize == Uint32(SubSeq(in, 5, 8)) IN
         IF Len(in) < keySize + 12 THEN [err |-> "io", value |-> <<>>]
         ELSE LET valSize == Uint32(SubSeq(in, keySize + 9, keySize + 12))
                  rest == Len(in) - (keySize + 12)
              IN IF rest < valSize THEN [err |-> "io", value |-> <<>>]
                 ELSE [err |-> "nil",
                       value |-> SubSeq(in, keySize + 13, keySize + 12 + valSize)]

(* ---------- segment names ---------- *)
RECURSIVE Itoa(_)
Itoa(n) == IF n < 10 THEN <<n>> ELSE Itoa(n \div 10) \o <<n % 10>>

HasPrefix(s, p) == Len(p) <= Len(s) /\ SubSeq(s, 1, Len(p)) = p

(* string comparison of two segment file names (common prefix dropped) *)
RECURSIVE StrLess(_, _)
StrLess(s, t) ==
    IF s = <<>> THEN t # <<>>
    ELSE IF t = <<>> THEN FALSE
    ELSE IF Head(s) # Head(t) THEN Head(s) < Head(t)
    ELSE StrLess(Tail(s), Tail(t))

NameLess(a, b) == StrLess(Itoa(a), Itoa(b))

(* the ids of a set of files in the order sort.Slice / sort.Strings gives *)
RECURSIVE SortByName(_)
SortByName(S) ==
    IF S = {} THEN <<>>
    ELSE LET m == CHOOSE x \in S : \A y \in S \ {x} : NameLess(x, y)
         IN <<m>> \o SortByName(S \ {m})

(* ---------- the frame-scanning loop of recover and of the merger ---------- *)
RECURSIVE ScanFrom(_, _)
ScanFrom(b, pos) ==
    LET buffered == Min(bufSize, Len(b) - pos) IN
    IF buffered = 0 THEN [st |-> "ok", ents |-> <<>>]
    ELSE IF buffered < 4 THEN [st |-> "panic", ents |-> <<>>]
    ELSE LET size == Uint32(SubSeq(b, pos + 1, pos + 4))
             n == Min(size, buffered)
         IN IF n # size THEN [st |-> "corrupt", ents |-> <<>>]
            ELSE LET e == Decode(SubSeq(b, pos + 1, pos + size)) IN
                 IF ~e.ok THEN [st |-> "panic", ents |-> <<>>]
                 ELSE LET r == ScanFrom(b, pos + n) IN
                      [st |-> r.st,
                       ents |-> <<[key |-> e.key, value |-> e.value, off |-> pos, n |-> n]>> \o r.ents]

ScanFile(b) == ScanFrom(b, 0)

(* ---------- state ---------- *)
VARIABLES
    files,        \* the directory: segment id -> bytes of data-segment-<id>
    engine,       \* "up", or "none" when NewDb returned an error, or "crashed"
    out,          \* db.out: "open", or "nil" after a failed OpenFile
    outSegment,   \* db.outSegment
    outOffset,    \* db.outOffset
    index,        \* db.index: key -> offset
    fileIndex,    \* db.fileIndex: key -> segment
    maxFileSize,  \* db.maxFileSize
    mu,           \* db.mu: [w |-> writer holds it, r |-> number of readers]
    sem,          \* db.workerPool: slots acquired
    wg,           \* db.wg: mergers spawned and not yet done
    inside,       \* bag of the calls that are between Lock/RLock and Unlock/RUnlock
    ev,           \* the last call that returned, with its result
    last,         \* key -> value of the last successful Put on this engine
    fresh,        \* <<k, v>> of the last Put if it succeeded, else <<>>
    seen,         \* the keys recovery found in the directory
    nput,         \* Put calls started in this behaviour
    nfail,        \* I/O calls that failed in this behaviour
    nopen,        \* engines opened after the first one
    serverBytes,  \* the balancer's tallies: backend -> bytes returned so far
    conns,        \* bag of the requests the balancer's handler is working on
    lbev,         \* the last response the balancer completed
    streamed,     \* backend -> sum of the byte counts io.Copy returned without error
    minServer,    \* the result of the last call of getMinByteServer
    nreq,         \* calls of getMinByteServer in this behaviour
    lb,           \* the balancer process: "up" or "crashed"
    nget,         \* the Gets counted by a workload of finitely many Gets
    probe,        \* the last line a health goroutine logged: [dst, ok]
    listening,    \* the application servers that are past server.Start()
    resp          \* the last answer of an application server to GET /api/v1/some-data

(* the store, the balancer, the application servers *)
dbvars == << files, engine, out, outSegment, outOffset, index, fileIndex, maxFileSize,
             mu, sem, wg, inside, ev, last, fresh, seen, nput, nfail, nopen, nget >>
lbvars == << serverBytes, conns, lbev, streamed, minServer, nreq, lb, probe >>
appvars == << listening, resp >>

vars == << files, engine, out, outSegment, outOffset, index, fileIndex, maxFileSize,
           mu, sem, wg, inside, ev, last, fresh, seen, nput, nfail, nopen, nget,
           serverBytes, conns, lbev, streamed, minServer, nreq, lb, probe,
           listening, resp >>

EmptyMap == [x \in {} |-> 0]

(* m with key k set to v (Go map assignment) *)
MapSet(m, k, v) == [x \in DOMAIN m \cup {k} |-> IF x = k THEN v ELSE m[x]]

Call(op, key, value, stage) == [op |-> op, key |-> key, value |-> value, stage |-> stage]

PutCall(k, v) == Call("put", k, v, "locked")
MergeCall == Call("merge", <<>>, <<>>, "locked")
GetCall(k, stage) == Call("get", k, <<>>, stage)

Event(op, key, value, err, flag) ==
    [op |-> op, key |-> key, value |-> value, err |-> err, flag |-> flag]

(* ---------- NewDb and recover ---------- *)
(* a scan of the directory that keeps the smallest segment number *)
getMinSegmentNumber(dir) ==
    IF DOMAIN dir = {} THEN 0
    ELSE CHOOSE m \in DOMAIN dir : \A x \in DOMAIN dir : m <= x

getMaxSegmentNumber(dir) ==
    IF DOMAIN dir = {} THEN 0
    ELSE CHOOSE m \in DOMAIN dir : \A x \in DOMAIN dir : x <= m

(* replay of the entries of one scanned file into the two indices *)
RECURSIVE Replay(_, _, _)
Replay(ents, seg, ix) ==
    IF ents = <<>> THEN ix
    ELSE Replay(Tail(ents), seg,
                [index |-> MapSet(ix.index, Head(ents).key, Head(ents).off),
                 fileIndex |-> MapSet(ix.fileIndex, Head(ents).key, seg),
                 outOffset |-> Head(ents).off + Head(ents).n])

RECURSIVE recover(_, _, _)
recover(dir, names, ix) ==
    IF names = <<>> THEN [st |-> "ok", ix |-> ix]
    ELSE LET sc == ScanFile(dir[Head(names)]) IN
         IF sc.st # "ok" THEN [st |-> sc.st, ix |-> ix]
         ELSE recover(dir, Tail(names),
                      Replay(sc.ents, Head(names),
                             [index |-> ix.index, fileIndex |-> ix.fileIndex, outOffset |-> 0]))

(* NewDb(dir, size): the directory after OpenFile(O_CREATE) and the fields of the engine *)
NewDb(dir) ==
    LET maxSegmentIndex == getMaxSegmentNumber(dir)
        created == IF maxSegmentIndex \in DOMAIN dir THEN dir
                   ELSE MapSet(dir, maxSegmentIndex, <<>>)
        r == recover(created, SortByName(DOMAIN created),
                     [index |-> EmptyMap, fileIndex |-> EmptyMap, outOffset |-> 0])
    IN [st |-> r.st, files |-> created, outSegment |-> maxSegmentIndex,
        outOffset |-> r.ix.outOffset, index |-> r.ix.index, fileIndex |-> r.ix.fileIndex]

(* ---------- Get ---------- *)
Indexed(k) == k \in DOMAIN fileIndex /\ k \in DOMAIN index

(* what Get(k) returns in the current state *)
GetResult(k) ==
    IF ~Indexed(k) THEN [err |-> "NotFound", value |-> <<>>]
    ELSE IF fileIndex[k] \notin DOMAIN files THEN [err |-> "io", value |-> <<>>]
    ELSE LET f == files[fileIndex[k]] IN readValue(SubSeq(f, index[k] + 1, Len(f)))


(* ---------- the readers-writer lock and the semaphore ---------- *)
(* a writer lock that does not wait for the readers *)
CanLockIgnoringReaders == ~mu.w

CanLock == ~mu.w /\ mu.r = 0

CanRLock == ~mu.w

(* a pool without a slot: every Acquire waits for ever *)
CanAcquireNoSlot == sem < 0

(* a Get that opens its file without waiting for a slot *)
CanAcquireAlways == TRUE

CanAcquire == sem < workerPoolSize

One(c) == SetToBag({c})

(* ---------- Put ---------- *)
(* db.mu.Lock() at the head of Put; cap bounds the Put calls of a behaviour *)
PutLock(k, v, cap) ==
    /\ engine = "up"
    /\ nput < cap
    /\ CanLock
    /\ mu' = [mu EXCEPT !.w = TRUE]
    /\ inside' = inside (+) One(PutCall(k, v))
    /\ nput' = nput + 1
    /\ UNCHANGED << files, engine, out, outSegment, outOffset, index, fileIndex,
                    maxFileSize, sem, wg, ev, last, fresh, seen, nfail, nopen, nget >>
    /\ UNCHANGED << lbvars, appvars >>

(* a Write on a file opened with O_TRUNC in place of O_APPEND *)
WriteTruncating(f, data, n) == SubSeq(data, 1, n)

(* db.out.Write on a file opened with O_APPEND: the first n bytes of data go to the end *)
Write(f, data, n) == f \o SubSeq(data, 1, n)

(* the index update without the test of err *)
CommitAlways(m, k, x, err) == MapSet(m, k, x)

(* the index update left out *)
CommitNever(m, k, x, err) == m

(* `if err == nil { db.index[key] = ...; db.fileIndex[key] = ... }` for one of the two maps *)
Commit(m, k, x, err) == IF err = "nil" THEN MapSet(m, k, x) ELSE m

(* an index update that records the offset and forgets the segment *)
IndicesOffsetOnly(k, off, seg, err) ==
    [index |-> Commit(index, k, off, err), fileIndex |-> fileIndex]

(* the two indices after the index update of Put *)
Indices(k, off, seg, err) ==
    [index |-> Commit(index, k, off, err), fileIndex |-> Commit(fileIndex, k, seg, err)]

(* a rotation test that also fires at the ceiling *)
ReachesCeiling(size, ceiling) == size >= ceiling

(* `if fileInfo.Size() > db.maxFileSize` *)
Exceeds(size, ceiling) == size > ceiling

(* The body of Put after Lock, as a function of the I/O outcome:            *)
(* fault is "none", or the call that fails ("stat", "open", "write");       *)
(* short is the number of bytes a failing Write still appended.             *)
PutRun(k, v, fault, short) ==
    IF out # "open" \/ fault = "stat"
    THEN [err |-> "io", rot |-> FALSE, files |-> files, out |-> out,
          outSegment |-> outSegment, outOffset |-> outOffset,
          index |-> index, fileIndex |-> fileIndex, wg |-> wg]
    ELSE
    LET rotate == Exceeds(Len(files[outSegment]), maxFileSize)
        seg == IF rotate THEN outSegment + 1 ELSE outSegment
    IN
    IF rotate /\ fault = "open"
    THEN [err |-> "io", rot |-> TRUE, files |-> files, out |-> "nil",
          outSegment |-> seg, outOffset |-> outOffset,
          index |-> index, fileIndex |-> fileIndex, wg |-> wg]
    ELSE
    LET opened == IF rotate /\ seg \notin DOMAIN files THEN MapSet(files, seg, <<>>) ELSE files
        off == IF rotate THEN 0 ELSE outOffset
        spawned == IF rotate THEN wg + 1 ELSE wg
        data == Encode(k, v)
        n == IF fault = "write" THEN short ELSE Len(data)
        err == IF fault = "write" THEN "io" ELSE "nil"
    IN [err |-> err, rot |-> rotate,
        files |-> [opened EXCEPT ![seg] = Write(@, data, n)],
        out |-> "open", outSegment |-> seg,
        outOffset |-> IF err = "nil" THEN off + n ELSE off,
        index |-> Indices(k, off, seg, err).index,
        fileIndex |-> Indices(k, off, seg, err).fileIndex,
        wg |-> spawned]

(* the rest of Put, up to the deferred Unlock *)
PutStep(k, v, fault, short) ==
    /\ BagIn(PutCall(k, v), inside)
    /\ LET r == PutRun(k, v, fault, short) IN
       /\ files' = r.files
       /\ out' = r.out
       /\ outSegment' = r.outSegment
       /\ outOffset' = r.outOffset
       /\ index' = r.index
       /\ fileIndex' = r.fileIndex
       /\ wg' = r.wg
       /\ ev' = Event("put", k, v, r.err, r.rot)
       /\ last' = IF r.err = "nil" THEN MapSet(last, k, v) ELSE last
       /\ fresh' = IF r.err = "nil" THEN <<k, v>> ELSE <<>>
    /\ mu' = [mu EXCEPT !.w = FALSE]
    /\ inside' = inside (-) One(PutCall(k, v))
    /\ nfail' = IF fault = "none" THEN nfail ELSE nfail + 1
    /\ UNCHANGED << engine, maxFileSize, sem, seen, nput, nopen, nget >>
    /\ UNCHANGED << lbvars, appvars >>

PutBody(k, v) == PutStep(k, v, "none", 0)

(* Put with an I/O call that fails *)
PutFail(k, v, fault, short) ==
    /\ nfail < MaxFaults
    /\ fault = "open" => out = "open" /\ Exceeds(Len(files[outSegment]), maxFileSize)
    /\ fault # "stat" => out = "open"
    /\ PutStep(k, v, fault, short)


(* ---------- the merger ---------- *)
(* the goroutine started by a rotation reaches db.mu.Lock() *)
MergeLock ==
    /\ engine = "up"
    /\ CopiesIn(MergeCall, inside) < wg
    /\ CanLock
    /\ mu' = [mu EXCEPT !.w = TRUE]
    /\ inside' = inside (+) One(MergeCall)
    /\ UNCHANGED << files, engine, out, outSegment, outOffset, index, fileIndex,
                    maxFileSize, sem, wg, ev, last, fresh, seen, nput, nfail, nopen, nget >>
    /\ UNCHANGED << lbvars, appvars >>

(* a merge set that leaves no file out *)
GetAllFiles(dir, seg) == SortByName(DOMAIN dir)

GetFilesToMerge(dir, seg) ==
    SortByName({id \in DOMAIN dir : ~HasPrefix(Itoa(id), Itoa(seg))})

RECURSIVE PutAll(_, _)
PutAll(ents, data) ==
    IF ents = <<>> THEN data
    ELSE PutAll(Tail(ents), MapSet(data, Head(ents).key, Head(ents).value))

(* the read loop over the merge set: mergedData, later occurrences overwrite *)
RECURSIVE ReadSegments(_, _, _)
ReadSegments(dir, names, data) ==
    IF names = <<>> THEN [st |-> "ok", data |-> data]
    ELSE LET sc == ScanFile(dir[Head(names)]) IN
         IF sc.st # "ok" THEN [st |-> sc.st, data |-> data]
         ELSE ReadSegments(dir, Tail(names), PutAll(sc.ents, data))

(* a merger that removes no file *)
RemoveNothing(dir, names) == dir

(* os.Remove of every merge-set file but the first *)
RemoveSegments(dir, names) ==
    LET gone == {names[i] : i \in 2..Len(names)}
    IN [id \in DOMAIN dir \ gone |-> dir[id]]

(* a write loop that re-points every indexed key *)
MovedAlways(fi, k) == k \in DOMAIN fi

(* `if segment, ok := db.fileIndex[e.key]; ok { if segment != db.outSegment` *)
Moved(fi, k) == k \in DOMAIN fi /\ fi[k] # outSegment

(* the write loop: mergedData in the iteration order `order` into segment 0 *)
RECURSIVE WriteMerged(_, _, _)
WriteMerged(order, data, acc) ==
    IF order = <<>> THEN acc
    ELSE LET k == Head(order)
             frame == Encode(k, data[k])
             moved == Moved(acc.fileIndex, k)
         IN WriteMerged(Tail(order), data,
                [bytes |-> acc.bytes \o frame,
                 index |-> IF moved THEN MapSet(acc.index, k, Len(acc.bytes)) ELSE acc.index,
                 fileIndex |-> IF moved THEN MapSet(acc.fileIndex, k, 0) ELSE acc.fileIndex])

(* all orders in which a Go map over the key set S can be iterated *)
RECURSIVE Orders(_)
Orders(S) ==
    IF S = {} THEN {<<>>}
    ELSE UNION {{<<x>> \o o : o \in Orders(S \ {x})} : x \in S}

(* a merger that also merges a directory of two files *)
NothingToMergeBelowTwo(n) == n <= 1

(* `if len(files) <= 2`: nothing to merge *)
NothingToMerge(n) == n <= 2

Unmerged(res) == [res |-> res, files |-> files, index |-> index, fileIndex |-> fileIndex]

(* mergeSegmentFiles after Lock; order is the map iteration order of the write loop *)
MergeRun(order) ==
    IF NothingToMerge(Cardinality(DOMAIN files)) THEN Unmerged("skip")
    ELSE
    LET fileNames == GetFilesToMerge(files, outSegment)
        rd == ReadSegments(files, fileNames, EmptyMap)
    IN
    IF rd.st # "ok" THEN Unmerged(rd.st)
    ELSE
    LET kept == RemoveSegments(files, fileNames) IN
    IF 0 \notin DOMAIN kept
    THEN [res |-> "error", files |-> kept, index |-> index, fileIndex |-> fileIndex]
    ELSE
    LET w == WriteMerged(order, rd.data,
                         [bytes |-> <<>>, index |-> index, fileIndex |-> fileIndex])
    IN [res |-> "merged", files |-> [kept EXCEPT ![0] = w.bytes],
        index |-> w.index, fileIndex |-> w.fileIndex]

(* the keys the write loop iterates over *)
MergedKeys ==
    IF NothingToMerge(Cardinality(DOMAIN files)) THEN {}
    ELSE LET rd == ReadSegments(files, GetFilesToMerge(files, outSegment), EmptyMap)
         IN IF rd.st = "ok" THEN DOMAIN rd.data ELSE {}

(* the body of mergeSegmentFiles, the deferred Unlock and wg.Done *)
MergeBody ==
    /\ BagIn(MergeCall, inside)
    /\ \E order \in Orders(MergedKeys) :
         LET r == MergeRun(order) IN
         /\ files' = r.files
         /\ index' = r.index
         /\ fileIndex' = r.fileIndex
         /\ engine' = IF r.res = "panic" THEN "crashed" ELSE engine
         /\ ev' = Event("merge", <<>>, <<>>,
                        IF r.res \in {"skip", "merged"} THEN "nil" ELSE "io",
                        r.res = "merged")
    /\ mu' = [mu EXCEPT !.w = FALSE]
    /\ inside' = inside (-) One(MergeCall)
    /\ wg' = wg - 1
    /\ UNCHANGED << out, outSegment, outOffset, maxFileSize, sem, last, fresh, seen, nput, nfail, nopen, nget >>
    /\ UNCHANGED << lbvars, appvars >>


(* ---------- Get, step by step ---------- *)
(* db.mu.RLock() at the head of Get; cap bounds the Gets in flight *)
GetEnter(k, cap) ==
    /\ engine = "up"
    /\ mu.r < cap
    /\ CanRLock
    /\ mu' = [mu EXCEPT !.r = @ + 1]
    /\ inside' = inside (+) One(GetCall(k, "locked"))
    /\ UNCHANGED << files, engine, out, outSegment, outOffset, index, fileIndex,
                    maxFileSize, sem, wg, ev, last, fresh, seen, nput, nfail, nopen >>
    /\ UNCHANGED << lbvars, appvars >>

GetRLock(k, cap) == GetEnter(k, cap) /\ UNCHANGED nget

(* a return of Get: the deferred Release (when a slot is held) and RUnlock *)
GetReturn(k, stage, value, err, opened) ==
    /\ inside' = inside (-) One(GetCall(k, stage))
    /\ sem' = IF stage = "locked" THEN sem ELSE sem - 1
    /\ mu' = [mu EXCEPT !.r = @ - 1]
    /\ ev' = Event("get", k, value, err, opened)
    /\ UNCHANGED << files, engine, out, outSegment, outOffset, index, fileIndex,
                    maxFileSize, wg, last, fresh, seen, nput, nfail, nopen, nget >>
    /\ UNCHANGED << lbvars, appvars >>

(* the two index lookups fail: ErrNotFound *)
GetNotFound(k) ==
    /\ BagIn(GetCall(k, "locked"), inside)
    /\ ~Indexed(k)
    /\ GetReturn(k, "locked", <<>>, "NotFound", FALSE)

(* db.workerPool.Acquire(context.Background(), 1) *)
GetAcquire(k) ==
    /\ BagIn(GetCall(k, "locked"), inside)
    /\ Indexed(k)
    /\ CanAcquire
    /\ sem' = sem + 1
    /\ inside' = (inside (-) One(GetCall(k, "locked"))) (+) One(GetCall(k, "sem"))
    /\ UNCHANGED << files, engine, out, outSegment, outOffset, index, fileIndex,
                    maxFileSize, mu, wg, ev, last, fresh, seen, nput, nfail, nopen, nget >>
    /\ UNCHANGED << lbvars, appvars >>

(* os.Open of the segment the index names *)
GetOpen(k) ==
    /\ BagIn(GetCall(k, "sem"), inside)
    /\ IF fileIndex[k] \in DOMAIN files
       THEN /\ inside' = (inside (-) One(GetCall(k, "sem"))) (+) One(GetCall(k, "open"))
            /\ UNCHANGED << files, engine, out, outSegment, outOffset, index, fileIndex,
                            maxFileSize, mu, sem, wg, ev, last, fresh, seen, nput, nfail, nopen, nget >>
            /\ UNCHANGED << lbvars, appvars >>
       ELSE GetReturn(k, "sem", <<>>, "io", FALSE)

(* Seek, readValue, and the deferred Close, Release and RUnlock *)
GetRead(k) ==
    /\ BagIn(GetCall(k, "open"), inside)
    /\ LET r == GetResult(k) IN GetReturn(k, "open", r.value, r.err, TRUE)

(* the keys that occur in the frames of the files of a directory *)
KeysIn(dir) ==
    UNION {{ScanFile(dir[id]).ents[i].key : i \in 1..Len(ScanFile(dir[id]).ents)} : id \in DOMAIN dir}

(* ---------- Close, and NewDb on the same directory ---------- *)
(* the engine state NewDb(dir, size) constructs *)
Opened(dir, size) ==
    LET d == NewDb(dir) IN
    /\ files' = d.files
    /\ engine' = IF d.st = "ok" THEN "up" ELSE IF d.st = "corrupt" THEN "none" ELSE "crashed"
    /\ out' = "open"
    /\ outSegment' = d.outSegment
    /\ outOffset' = d.outOffset
    /\ index' = d.index
    /\ fileIndex' = d.fileIndex
    /\ maxFileSize' = size
    /\ mu' = [w |-> FALSE, r |-> 0]
    /\ sem' = 0
    /\ wg' = 0
    /\ inside' = EmptyBag
    /\ ev' = Event("open", <<>>, <<>>, IF d.st = "ok" THEN "nil" ELSE "io", FALSE)
    /\ last' = EmptyMap
    /\ fresh' = <<>>
    /\ seen' = KeysIn(d.files)

(* db.Close() with no call in flight, the process ends (mergers that have   *)
(* not started are lost), and a new process opens the directory             *)
Reopen ==
    /\ engine = "up"
    /\ inside = EmptyBag
    /\ nopen < MaxOpens
    /\ Opened(files, maxFileSize)
    /\ nopen' = nopen + 1
    /\ UNCHANGED << nput, nfail, nget >>
    /\ UNCHANGED << lbvars, appvars >>

(* ---------- the directories an engine is first opened on ---------- *)
EmptyDir == [id \in {} |-> <<>>]

(* segment 0 as a merger left it and one record in the active segment 9 *)
MergedDir == [id \in {0, 9} |-> IF id = 0 THEN Encode(<<1>>, <<1>>) ELSE Encode(<<2>>, <<1>>)]

(* the same after two more Puts under ceiling 14, the second of which rotated to   *)
(* segment 10, closed before the merger that rotation started has run             *)
UnmergedDir ==
    [id \in {0, 9, 10} |->
        IF id = 0 THEN Encode(<<1>>, <<1>>)
        ELSE IF id = 9 THEN Encode(<<2>>, <<1>>) \o Encode(<<1>>, <<1>>)
        ELSE Encode(<<1>>, <<1>>)]

(* directory and ceiling of the first NewDb *)
InitConfigs ==
    ({EmptyDir, MergedDir} \X Ceilings) \cup {<<UnmergedDir, 14>>}

(* the store right after NewDb(dir, size) for some <<dir, size>> of configs *)
StoreInit(configs) ==
    /\ nput = 0
    /\ nopen = 0
    /\ nget = 0
    /\ nfail = 0
    /\ \E cfg \in configs :
       LET dir == cfg[1]
           size == cfg[2]
       IN
         /\ files = NewDb(dir).files
         /\ engine = "up"
         /\ out = "open"
         /\ outSegment = NewDb(dir).outSegment
         /\ outOffset = NewDb(dir).outOffset
         /\ index = NewDb(dir).index
         /\ fileIndex = NewDb(dir).fileIndex
         /\ maxFileSize = size
         /\ seen = KeysIn(NewDb(dir).files)
    /\ mu = [w |-> FALSE, r |-> 0]
    /\ sem = 0
    /\ wg = 0
    /\ inside = EmptyBag
    /\ ev = Event("open", <<>>, <<>>, "nil", FALSE)
    /\ last = EmptyMap
    /\ fresh = <<>>

(* ---------- the balancer and the application servers at start ---------- *)
serversPool == {"server1:8080", "server2:8080", "server3:8080"}

(* math.MaxInt64, the largest value of a tally, at the width of the model's *)
(* integers: 2^31 - 1 stands for 2^63 - 1                                   *)
MaxInt64 == 2147483647

(* one request in the balancer's handler: the backend chosen, how far the   *)
(* handler is, the byte count of io.Copy and the tally it read              *)
Conn(dst, stage, n, old) == [dst |-> dst, stage |-> stage, n |-> n, old |-> old]

(* a response of the balancer: the backend, the outcome of client.Do, the   *)
(* status written, the error forward returned, the bytes counted            *)
LbEvent(dst, do, status, err, n) ==
    [dst |-> dst, do |-> do, status |-> status, err |-> err, n |-> n]

(* a response of an HTTP handler *)
Response(status, text, key, value) ==
    [status |-> status, text |-> text, key |-> key, value |-> value]

(* the balancer with the tallies t and no request *)
LbStart(t) ==
    /\ serverBytes = t
    /\ conns = EmptyBag
    /\ lbev = LbEvent("", "none", 0, "nil", 0)
    /\ streamed = [s \in serversPool |-> 0]
    /\ minServer = ""
    /\ nreq = 0
    /\ lb = "up"
    /\ probe = [dst |-> "", ok |-> FALSE]

(* main of the balancer before frontend.Start(): every tally is 0 *)
LbInit == LbStart([s \in serversPool |-> 0])

(* no application server has started *)
AppInit ==
    /\ listening = {}
    /\ resp = Response(0, "", <<>>, <<>>)

Init ==
    /\ StoreInit(InitConfigs)
    /\ LbInit
    /\ AppInit

PutBegin == \E k \in Keys, v \in Values : PutLock(k, v, MaxPuts)
PutEnd == \E k \in Keys, v \in Values : PutBody(k, v)
GetBegin == \E k \in Keys : GetRLock(k, MaxReaders)
GetMiss == \E k \in Keys : GetNotFound(k)
GetSlot == \E k \in Keys : GetAcquire(k)
GetFile == \E k \in Keys : GetOpen(k)
GetEnd == \E k \in Keys : GetRead(k)

Next ==
    \/ PutBegin
    \/ PutEnd
    \/ MergeLock
    \/ MergeBody
    \/ GetBegin
    \/ GetMiss
    \/ GetSlot
    \/ GetFile
    \/ GetEnd
    \/ Reopen

Spec == Init /\ [][Next]_vars


(* ---------- Puts with failing I/O calls, mergers and reopening ---------- *)
PutStatFails == \E k \in Keys, v \in Values : PutFail(k, v, "stat", 0)
PutOpenFails == \E k \in Keys, v \in Values : PutFail(k, v, "open", 0)
PutWriteFails ==
    \E k \in Keys, v \in Values : \E short \in 0..(Len(Encode(k, v)) - 1) :
        PutFail(k, v, "write", short)

PutBeginIO == \E k \in Keys, v \in Values : PutLock(k, v, FaultPuts)

NextIO ==
    \/ PutBeginIO
    \/ PutEnd
    \/ MergeLock
    \/ MergeBody
    \/ Reopen
    \/ PutStatFails
    \/ PutOpenFails
    \/ PutWriteFails

SpecIO == Init /\ [][NextIO]_vars

(* ---------- TestDb_Put_Merge: empty directory, ceiling 1, distinct keys ---------- *)
InitMerge ==
    /\ Init
    /\ maxFileSize = 1
    /\ DOMAIN files = {0}

PutBeginMerge == \E k \in MergeKeys : PutLock(k, <<1>>, MergePuts)
PutEndMerge == \E k \in MergeKeys : PutBody(k, <<1>>)

NextMerge ==
    \/ PutBeginMerge
    \/ PutEndMerge
    \/ MergeLock
    \/ MergeBody

SpecMerge == InitMerge /\ [][NextMerge]_vars

(* ---------- Gets, Puts and mergers contending for the lock ---------- *)
InitLock ==
    /\ Init
    /\ maxFileSize = 1
    /\ DOMAIN files = {0}

PutBeginLock == \E k \in Keys, v \in Values : PutLock(k, v, LockPuts)
GetBeginLock == \E k \in Keys : GetRLock(k, LockReaders)

NextLock ==
    \/ PutBeginLock
    \/ PutEnd
    \/ MergeLock
    \/ MergeBody
    \/ GetBeginLock
    \/ GetMiss
    \/ GetSlot
    \/ GetFile
    \/ GetEnd

SpecLock == InitLock /\ [][NextLock]_vars

(* ---------- many concurrent Gets on one engine ---------- *)
InitPool ==
    /\ Init
    /\ maxFileSize = 14
    /\ DOMAIN files = {0, 9}

GetBeginPool == \E k \in PoolKeys : GetRLock(k, PoolReaders)
GetMissPool == \E k \in PoolKeys : GetNotFound(k)
GetSlotPool == \E k \in PoolKeys : GetAcquire(k)
GetFilePool == \E k \in PoolKeys : GetOpen(k)
GetEndPool == \E k \in PoolKeys : GetRead(k)

NextPool ==
    \/ GetBeginPool
    \/ GetMissPool
    \/ GetSlotPool
    \/ GetFilePool
    \/ GetEndPool

SpecPool == InitPool /\ [][NextPool]_vars


(* ---------- the balancer: getMinByteServer ---------- *)
(* the loop `for server, bytes := range serverBytes` over the rest of the   *)
(* iteration order, with the minServer and minBytes found so far            *)
RECURSIVE rangeServerBytes(_, _, _, _)
rangeServerBytes(tallies, order, server, bytes) ==
    IF order = <<>> THEN server
    ELSE IF tallies[Head(order)] < bytes
         THEN rangeServerBytes(tallies, Tail(order), Head(order), tallies[Head(order)])
         ELSE rangeServerBytes(tallies, Tail(order), server, bytes)

(* a selection among the backends that listen only *)
getMinHealthyServer(tallies, order) ==
    rangeServerBytes(tallies, SelectSeq(order, LAMBDA s : s \in listening), "", MaxInt64)

(* getMinByteServer on the map tallies when range yields its keys in `order` *)
getMinByteServer(tallies, order) == rangeServerBytes(tallies, order, "", MaxInt64)

(* the tallies a test assigns to serverBytes before it calls getMinByteServer *)
Tallies == {0, 200, 300, 500, MaxInt64}

(* the store of a process that serves no store call *)
StoreIdle == StoreInit({<<EmptyDir, 1>>})

InitMin ==
    /\ StoreIdle
    /\ AppInit
    /\ \E t \in [serversPool -> Tallies] : LbStart(t)

(* TestGetMinByteServer: one call of getMinByteServer on the assigned tallies *)
CallGetMin ==
    /\ nreq < MinCalls
    /\ \E order \in Orders(serversPool) :
         minServer' = getMinByteServer(serverBytes, order)
    /\ nreq' = nreq + 1
    /\ UNCHANGED << dbvars, appvars, serverBytes, conns, lbev, streamed, lb, probe >>

NextMin == CallGetMin

SpecMin == InitMin /\ [][NextMin]_vars

(* ---------- the balancer: the handler and forward ---------- *)
(* the handler starts on a request: minServer := getMinByteServer(), then   *)
(* forward sends the request on; cap bounds the requests of a behaviour     *)
(* and width the requests in the handler at once                            *)
LbAccept(cap, width) ==
    /\ lb = "up"
    /\ nreq < cap
    /\ BagCardinality(conns) < width
    /\ \E order \in Orders(serversPool) :
         LET dst == getMinByteServer(serverBytes, order) IN
         /\ minServer' = dst
         /\ conns' = conns (+) One(Conn(dst, "chosen", 0, 0))
    /\ nreq' = nreq + 1
    /\ UNCHANGED << dbvars, appvars, serverBytes, lbev, streamed, lb, probe >>

(* a forward that answers 200 and returns nil whatever client.Do returned *)
forwardHidesFailure(dst, do, size, copy) ==
    [status |-> 200, err |-> "nil", counted |-> do = "ok" /\ copy = "ok",
     n |-> IF do = "ok" /\ copy = "ok" THEN size ELSE 0]

(* forward after client.Do: do is "ok" or "err"; size is the length of the  *)
(* backend's body and copy the outcome of io.Copy. The result is the status *)
(* written, the error returned, and whether and how many bytes are added    *)
(* to the tally.                                                            *)
forward(dst, do, size, copy) ==
    IF do = "ok"
    THEN [status |-> 200, err |-> "nil", counted |-> copy = "ok",
          n |-> IF copy = "ok" THEN size ELSE 0]
    ELSE [status |-> 503, err |-> "err", counted |-> FALSE, n |-> 0]

(* forward up to the read of serverBytes[dst] in `serverBytes[dst] +=       *)
(* byteCount`, or up to its return when nothing is added                    *)
LbForward(dst, do, size, copy) ==
    /\ lb = "up"
    /\ BagIn(Conn(dst, "chosen", 0, 0), conns)
    /\ do = "ok" => dst \in serversPool
    /\ LET r == forward(dst, do, size, copy) IN
       IF r.counted
       THEN /\ conns' = (conns (-) One(Conn(dst, "chosen", 0, 0)))
                             (+) One(Conn(dst, "loaded", r.n, serverBytes[dst]))
            /\ streamed' = [streamed EXCEPT ![dst] = @ + r.n]
            /\ lbev' = lbev
       ELSE /\ conns' = conns (-) One(Conn(dst, "chosen", 0, 0))
            /\ streamed' = streamed
            /\ lbev' = LbEvent(dst, do, r.status, r.err, r.n)
    /\ UNCHANGED << dbvars, appvars, serverBytes, minServer, nreq, lb, probe >>

(* the write of `serverBytes[dst] += byteCount`, and the return of forward *)
LbStore(c) ==
    /\ lb = "up"
    /\ BagIn(c, conns)
    /\ c.stage = "loaded"
    /\ serverBytes' = [serverBytes EXCEPT ![c.dst] = c.old + c.n]
    /\ conns' = conns (-) One(c)
    /\ lbev' = LbEvent(c.dst, "ok", 200, "nil", c.n)
    /\ UNCHANGED << dbvars, appvars, streamed, minServer, nreq, lb, probe >>

(* two handlers assign into the map at once: the runtime stops the process  *)
(* with "fatal error: concurrent map writes"                                *)
LbFatal ==
    /\ lb = "up"
    /\ \E c \in BagToSet(conns), d \in BagToSet(conns) :
         /\ c.stage = "loaded" /\ d.stage = "loaded"
         /\ c # d \/ CopiesIn(c, conns) >= 2
    /\ lb' = "crashed"
    /\ conns' = EmptyBag
    /\ UNCHANGED << dbvars, appvars, serverBytes, lbev, streamed, minServer, nreq, probe >>

(* the lengths of the bodies the backends answer with *)
BodySizes == {1, 2}

InitLB ==
    /\ StoreIdle
    /\ AppInit
    /\ LbInit

LbBegin == LbAccept(MaxRequests, MaxConns)
LbDoFails == \E dst \in serversPool \cup {""} : LbForward(dst, "err", 0, "ok")
LbDo == \E dst \in serversPool, size \in BodySizes, copy \in {"ok", "err"} :
            LbForward(dst, "ok", size, copy)
LbEnd == \E c \in BagToSet(conns) : LbStore(c)

NextLB ==
    \/ LbBegin
    \/ LbDoFails
    \/ LbDo
    \/ LbEnd
    \/ LbFatal

SpecLB == InitLB /\ [][NextLB]_vars

(* ---------- the balancer with backends that are down ---------- *)
(* a tick of the health goroutine of dst: it logs health(dst), which is     *)
(* false when client.Do fails (the backend does not listen) or the status   *)
(* is not 200 (the backend runs with CONF_HEALTH_FAILURE=true)              *)
HealthProbe ==
    /\ lb = "up"
    /\ \E dst \in serversPool, failConfig \in BOOLEAN :
         probe' = [dst |-> dst, ok |-> dst \in listening /\ ~failConfig]
    /\ UNCHANGED << dbvars, appvars, serverBytes, conns, lbev, streamed, minServer, nreq, lb >>

(* the balancer starts while some of the backends listen; the others stay down *)
InitHealth ==
    /\ StoreIdle
    /\ LbInit
    /\ listening \in SUBSET serversPool
    /\ resp = Response(0, "", <<>>, <<>>)

HealthBegin == LbAccept(HealthRequests, 1)
HealthDo == \E dst \in listening, size \in BodySizes : LbForward(dst, "ok", size, "ok")
HealthDoFails == \E dst \in serversPool \ listening : LbForward(dst, "err", 0, "ok")

NextHealth ==
    \/ HealthProbe
    \/ HealthBegin
    \/ HealthDo
    \/ HealthDoFails
    \/ LbEnd

SpecHealth == InitHealth /\ [][NextHealth]_vars

(* ---------- TestBalancer: requests one after another, equal bodies ---------- *)
(* the body has the length of the body of the response before *)
EqualSize(size) == lbev.do = "none" \/ size = lbev.n

SeqBegin == LbAccept(SeqRequests, 1)
SeqDo == \E dst \in serversPool, size \in BodySizes :
            EqualSize(size) /\ LbForward(dst, "ok", size, "ok")

NextSeq ==
    \/ SeqBegin
    \/ SeqDo
    \/ LbEnd

SpecSeq == InitLB /\ [][NextSeq]_vars

(* ---------- the application servers and the database server ---------- *)
TenMegabytes == 10485760

(* the key of databaseURL and the value of the seed record *)
solo == <<1>>
seedValue == <<2>>

(* the database server's handler of GET /db/{key}: db.Get under the read lock *)
dbGet(key) ==
    LET g == GetResult(key) IN
    IF g.err = "nil" THEN Response(200, "json", key, g.value)
    ELSE IF g.err = "NotFound" THEN Response(404, "404 page not found", <<>>, <<>>)
    ELSE Response(400, "error", <<>>, <<>>)

(* the handler of GET /api/v1/some-data: get is the outcome of http.Get     *)
(* (its err is nil for every response, whatever the status) and db the      *)
(* response of the database server, whose body is passed on with status 200 *)
someData(get, db) ==
    IF get = "err" THEN Response(500, "Error getting data", <<>>, <<>>)
    ELSE Response(200, db.text, db.key, db.value)

(* server.Start(): the application server s listens *)
AppStart(s) ==
    /\ s \notin listening
    /\ listening' = listening \cup {s}
    /\ UNCHANGED << dbvars, lbvars, resp >>

(* the seed POST of a server that listens reaches the database server,      *)
(* whose handler calls db.Put                                               *)
AppSeed ==
    /\ nput < Cardinality(listening)
    /\ PutLock(solo, seedValue, Cardinality(serversPool))

SeedDone == PutBody(solo, seedValue)

(* a listening server answers GET /api/v1/some-data *)
SomeData(s, get) ==
    /\ s \in listening
    /\ get = "ok" => engine = "up" /\ CanRLock
    /\ resp' = someData(get, dbGet(solo))
    /\ UNCHANGED << dbvars, lbvars, listening >>

InitServers ==
    /\ StoreInit({<<EmptyDir, TenMegabytes>>})
    /\ LbInit
    /\ AppInit

AppStarts == \E s \in serversPool : AppStart(s)
SomeDataOk == \E s \in serversPool : SomeData(s, "ok")
SomeDataDown == \E s \in serversPool : SomeData(s, "err")

NextServers ==
    \/ AppStarts
    \/ AppSeed
    \/ SeedDone
    \/ SomeDataOk
    \/ SomeDataDown

SpecServers == InitServers /\ [][NextServers]_vars

(* ---------- steps, as seen from outside ---------- *)
(* ---------- the merger under I/O errors ---------- *)
(* mergeSegmentFiles returns the error of the os.Remove of fileNames[n]     *)
(* (n <= Len(fileNames)) or of the os.OpenFile of segment 0 (n past the     *)
(* end): the files before fileNames[n] are removed, segment 0 is not yet    *)
(* opened                                                                   *)
MergeFails ==
    /\ nfail < MaxFaults
    /\ BagIn(MergeCall, inside)
    /\ ~NothingToMerge(Cardinality(DOMAIN files))
    /\ LET fileNames == GetFilesToMerge(files, outSegment) IN
       /\ ReadSegments(files, fileNames, EmptyMap).st = "ok"
       /\ \E n \in 2..(Len(fileNames) + 1) :
            files' = RemoveSegments(files, SubSeq(fileNames, 1, n - 1))
    /\ ev' = Event("merge", <<>>, <<>>, "io", FALSE)
    /\ nfail' = nfail + 1
    /\ mu' = [mu EXCEPT !.w = FALSE]
    /\ inside' = inside (-) One(MergeCall)
    /\ wg' = wg - 1
    /\ UNCHANGED << engine, out, outSegment, outOffset, index, fileIndex,
                    maxFileSize, sem, last, fresh, seen, nput, nopen, nget >>
    /\ UNCHANGED << lbvars, appvars >>

NextMergeIO ==
    \/ PutBegin
    \/ PutEnd
    \/ MergeLock
    \/ MergeBody
    \/ MergeFails

SpecMergeIO == Init /\ [][NextMergeIO]_vars

(* ---------- finitely many calls under fair scheduling ---------- *)
(* engines that rotate on every Put, so that every Put but the first on an   *)
(* empty directory spawns a merger                                          *)
InitLive ==
    /\ Init
    /\ maxFileSize = 1

(* the value written does not matter to the lock and the semaphore *)
PutBeginLive == \E k \in Keys : PutLock(k, <<1>>, LivePuts)
(* one of the Gets of a client that calls Get at most LiveGets times *)
GetBeginLive ==
    /\ nget < LiveGets
    /\ \E k \in Keys : GetEnter(k, LiveReaders)
    /\ nget' = nget + 1

NextLive ==
    \/ PutBeginLive
    \/ PutEnd
    \/ MergeLock
    \/ MergeBody
    \/ GetBeginLive
    \/ GetMiss
    \/ GetSlot
    \/ GetFile
    \/ GetEnd

(* the merger that holds the lock returns: what every MergeBody step does   *)
(* to the lock, the calls in flight and wg, whatever it does to the files   *)
MergeDone ==
    /\ BagIn(MergeCall, inside)
    /\ mu' = [mu EXCEPT !.w = FALSE]
    /\ inside' = inside (-) One(MergeCall)
    /\ wg' = wg - 1
    /\ sem' = sem

(* the scheduler does not stop while a goroutine of the engine (a call in   *)
(* flight, a merger) can take a step, each of which changes the lock, the   *)
(* semaphore, the join handle or the calls in flight; clients are free not  *)
(* to call                                                                  *)
SpecLive ==
    /\ InitLive
    /\ [][NextLive]_vars
    /\ WF_<< mu, sem, wg, inside >>(\/ PutEnd
                                    \/ MergeLock
                                    \/ MergeDone
                                    \/ GetMiss
                                    \/ GetSlot
                                    \/ GetFile
                                    \/ GetEnd)

(* ---------- records larger than the scan buffer ---------- *)
(* a value whose frame under a one-byte key is bufSize + 1 bytes long *)
BigValue == [i \in 1..(bufSize - 12) |-> 0]
PutBigBegin == \E k \in Keys, v \in {<<1>>, BigValue} : PutLock(k, v, BigPuts)
PutBigEnd == \E k \in Keys, v \in {<<1>>, BigValue} : PutBody(k, v)

NextBig ==
    \/ PutBigBegin
    \/ PutBigEnd
    \/ MergeLock
    \/ MergeBody
    \/ Reopen

SpecBig == Init /\ [][NextBig]_vars

PutCalls == {c \in BagToSet(inside) : c.op = "put"}
GetCalls(stage) == {c \in BagToSet(inside) : c.op = "get" /\ c.stage = stage}

RECURSIVE Copies(_)
Copies(S) == IF S = {} THEN 0
             ELSE LET c == CHOOSE x \in S : TRUE IN CopiesIn(c, inside) + Copies(S \ {c})

Writers == Copies(PutCalls) + CopiesIn(MergeCall, inside)
Readers == Copies(GetCalls("locked")) + Copies(GetCalls("sem")) + Copies(GetCalls("open"))

(* this step is the return of a Put *)
PutReturns == nput' = nput /\ ev'.op = "put" /\ BagCardinality(inside') < BagCardinality(inside)
(* this step is the return of mergeSegmentFiles *)
MergeReturns == CopiesIn(MergeCall, inside') < CopiesIn(MergeCall, inside)
(* this step closes the engine and opens a new one *)
Reopens == nopen' = nopen + 1

Ok(v) == [err |-> "nil", value |-> v]

(* the frame that starts at byte offset off of file f: the size field, then *)
(* that many bytes decoded; NoEntry when the bytes there are not a frame    *)
FrameAt(f, off) ==
    IF off + 4 > Len(f) THEN NoEntry
    ELSE LET size == Uint32(SubSeq(f, off + 1, off + 4)) IN
         IF off + size > Len(f) THEN NoEntry
         ELSE Decode(SubSeq(f, off + 1, off + size))


(* the keys of the frames of file f *)

(* the segments of the directory that hold a record of key k *)
SegmentsWith(dir, k) == {id \in DOMAIN dir : k \in KeysIn([i \in {id} |-> dir[id]])}

Max(S) == CHOOSE m \in S : \A x \in S : x <= m

(* the number of bytes at the end of f that follow its last whole frame *)
RECURSIVE TornTail(_, _)
TornTail(f, off) ==
    IF FrameAt(f, off).ok
    THEN TornTail(f, off + Uint32(SubSeq(f, off + 1, off + 4)))
    ELSE Len(f) - off

(* this step is the return of the balancer's handler *)
LbReturns == BagCardinality(conns') < BagCardinality(conns) /\ lb' = "up"

(* this step is the return of a forward whose client.Do failed *)
ForwardFails ==
    /\ BagCardinality(conns') < BagCardinality(conns)
    /\ lb' = "up"
    /\ lbev'.do = "err"

(* ======================= the claims ======================= *)

(* C1: after a Put(k, v) that returned no error, a Get(k) that returns      *)
(* before any other Put returns yields v and no error.                      *)
C1_PutThenGet ==
    (ev.op = "get" /\ fresh # <<>> /\ ev.key = fresh[1])
        => (ev.err = "nil" /\ ev.value = fresh[2])

(* C2: Get(k) returns the value of the most recent successful Put(k, _) of  *)
(* this engine, whatever rotations and merger runs came in between.         *)
C2_GetReturnsLatest ==
    (ev.op = "get" /\ ev.key \in DOMAIN last)
        => (ev.err = "nil" /\ ev.value = last[ev.key])

(* C3: reopen round trip: every key that Get could read before Close reads  *)
(* as the same value on the engine NewDb builds from the same directory.    *)
C3_ReopenRoundTrip ==
    [][Reopens => \A k \in Keys :
          GetResult(k).err = "nil" => GetResult(k)' = GetResult(k)]_vars

(* C4: a completed merger run changes the result of Get for no key.         *)
C4_MergePreservesReads ==
    [][MergeReturns => \A k \in Keys : GetResult(k)' = GetResult(k)]_vars

(* C5: with ceiling 1 on an empty directory, after N >= 2 successful Puts   *)
(* of distinct keys and once every spawned merger has returned, the         *)
(* directory holds exactly segment 0 and the active segment, and every key  *)
(* reads as its value.                                                      *)
C5_TwoFilesAfterMerge ==
    (/\ maxFileSize = 1 /\ nopen = 0
     /\ nput >= 2 /\ Cardinality(DOMAIN last) = nput
     /\ wg = 0 /\ inside = EmptyBag)
        => /\ outSegment # 0
           /\ DOMAIN files = {0, outSegment}
           /\ \A k \in DOMAIN last : GetResult(k) = Ok(last[k])

(* four distinct keys were Put, the mergers are done, three keys were moved to segment 0 *)
C5_Witness ==
    /\ maxFileSize = 1 /\ nopen = 0
    /\ nput = 4 /\ Cardinality(DOMAIN last) = 4
    /\ wg = 0 /\ inside = EmptyBag
    /\ ev.op = "merge" /\ ev.flag
    /\ Cardinality({k \in DOMAIN fileIndex : fileIndex[k] = 0}) = 3

(* C6: Get returns ErrNotFound, having opened no file, exactly when the key *)
(* is in neither index, and a key is indexed exactly when it was Put        *)
(* successfully on this engine or found in a segment during recovery.       *)
C6_NotFoundIffUnindexed ==
    /\ \A k \in Keys : Indexed(k) <=> (k \in DOMAIN last \cup seen)
    /\ ev.op = "get" =>
         /\ ev.err = "NotFound" <=> ~Indexed(ev.key)
         /\ ev.err = "NotFound" => ~ev.flag

(* a Get of a key that was never written returned ErrNotFound while another key is indexed *)
C6_Witness ==
    /\ ev.op = "get" /\ ev.err = "NotFound" /\ ~ev.flag
    /\ \E k \in Keys : k # ev.key /\ k \in DOMAIN last /\ Indexed(k)

(* C7: a successful Put appends exactly the encoded record to the active    *)
(* segment (the new one when it rotated) and changes no byte that was in    *)
(* any file before, also when the key was already indexed.                  *)
C7_PutAppendsOnly ==
    [][(PutReturns /\ ev'.err = "nil") =>
          LET before == IF outSegment' \in DOMAIN files THEN files[outSegment'] ELSE <<>>
          IN /\ files'[outSegment'] = before \o Encode(ev'.key, ev'.value)
             /\ DOMAIN files' = DOMAIN files \cup {outSegment'}
             /\ \A id \in DOMAIN files \ {outSegment'} : files'[id] = files[id]]_vars

(* a key that was already in the active segment has been Put again, and the segment *)
(* holds both frames                                                                  *)
C7_Witness ==
    /\ ev.op = "put" /\ ev.err = "nil" /\ ~ev.flag
    /\ Len(files[outSegment]) = 2 * Len(Encode(ev.key, ev.value))
    /\ index[ev.key] = Len(Encode(ev.key, ev.value))
    /\ ScanFile(files[outSegment]).ents[1].key = ev.key

(* C8: a Put that returns an error leaves both indices as they were, and    *)
(* every key that Get could read before the call reads as the same value.   *)
C8_FailedPutKeepsIndices ==
    [][(PutReturns /\ ev'.err # "nil") =>
          /\ index' = index
          /\ fileIndex' = fileIndex
          /\ \A k \in Keys : GetResult(k).err = "nil" => GetResult(k)' = GetResult(k)]_vars

(* a Put of an indexed key rotated, and its Write failed after some bytes *)
C8_Witness ==
    /\ ev.op = "put" /\ ev.err = "io" /\ ev.flag
    /\ outSegment \in DOMAIN files
    /\ Len(files[outSegment]) \in 1..13
    /\ Indexed(ev.key) /\ fileIndex[ev.key] # outSegment
    /\ GetResult(ev.key).err = "nil"

(* C9: at most one Put or merger is between Lock and Unlock, and then no    *)
(* Get is between RLock and RUnlock.                                        *)
C9_MutualExclusion ==
    /\ Writers <= 1
    /\ Writers = 1 => Readers = 0

(* two Gets hold the read lock together while a spawned merger waits for it *)
C9_Witness == Readers >= 2 /\ Writers = 0 /\ wg > 0

(* C10: at most workerPoolSize Gets hold an open segment file, and the      *)
(* slots taken from the semaphore are exactly those of the Gets that are    *)
(* past Acquire and have not returned.                                      *)
C10_PoolBoundsOpenFiles ==
    /\ Copies(GetCalls("open")) <= workerPoolSize
    /\ sem = Copies(GetCalls("sem")) + Copies(GetCalls("open"))
    /\ sem <= workerPoolSize

(* every slot is held by a Get with an open file, and one more Get waits in Acquire *)
C10_Witness ==
    /\ Copies(GetCalls("open")) = workerPoolSize
    /\ \E c \in GetCalls("locked") : Indexed(c.key)

(* C15: whenever an application server answers GET /api/v1/some-data with  *)
(* status 200, the body is the seeded record {key: solo, value: the seed    *)
(* value}, for every request accepted once the server listens, also before  *)
(* its seed POST has been applied.                                          *)
C15_SomeDataIsSeed ==
    resp.status = 200 =>
        /\ resp.text = "json"
        /\ resp.key = solo
        /\ resp.value = seedValue

(* C16: the two indices have the same key set in every state: after NewDb,  *)
(* after every Put that succeeded or failed, after every merger run.        *)
C16_SameKeySet == DOMAIN index = DOMAIN fileIndex

(* a Put failed in its Write after rotating, the merger it spawned has      *)
(* merged, and both keys of the directory are indexed                       *)
C16_Witness ==
    /\ ev.op = "merge" /\ ev.flag
    /\ nfail = 1
    /\ Cardinality(DOMAIN index) = 2

(* C17: whenever the exclusive lock is not held, every indexed key k names  *)
(* a segment file that exists, and the bytes at offset index[k] of it are   *)
(* one complete frame whose key is k.                                       *)
C17_IndexPointsToFrame ==
    ~mu.w =>
        \A k \in DOMAIN index \cap DOMAIN fileIndex :
            /\ fileIndex[k] \in DOMAIN files
            /\ FrameAt(files[fileIndex[k]], index[k]).ok
            /\ FrameAt(files[fileIndex[k]], index[k]).key = k

(* C18: whenever no Put is in progress, outOffset is the byte length of the *)
(* active segment file, the file named by outSegment: right after NewDb on  *)
(* any directory, after every Put and after every rotation.                 *)
C18_OffsetIsActiveSize ==
    (engine = "up" /\ out = "open" /\ PutCalls = {}) =>
        /\ outSegment \in DOMAIN files
        /\ outOffset = Len(files[outSegment])

(* C19: no segment file with an id greater than outSegment exists: NewDb    *)
(* takes the largest id present, a rotation creates only the file of the    *)
(* incremented outSegment, and the merger creates no file.                  *)
C19_NoFileAboveActive == \A id \in DOMAIN files : id <= outSegment

(* a Put rotated from segment 9 to the new segment 10 and the merger it     *)
(* spawned has merged the older files into segment 0                        *)
C19_Witness ==
    /\ ev.op = "merge" /\ ev.flag
    /\ nopen = 0
    /\ outSegment = 10
    /\ DOMAIN files = {0, 10}

(* C20: a Put rotates exactly when the active segment is strictly larger    *)
(* than maxFileSize when the call starts; a rotation increases outSegment   *)
(* by one, restarts outOffset at 0 so that the record of this same Put is   *)
(* the first frame of the new file, and spawns exactly one merger that the  *)
(* Put does not wait for; a Put that does not rotate spawns none.           *)
C20_RotationRule ==
    [][(PutReturns /\ ev'.err = "nil") =>
          LET frame == Encode(ev'.key, ev'.value) IN
          IF Len(files[outSegment]) > maxFileSize
          THEN /\ outSegment' = outSegment + 1
               /\ files'[outSegment'] = frame
               /\ index'[ev'.key] = 0 /\ fileIndex'[ev'.key] = outSegment'
               /\ outOffset' = Len(frame)
               /\ wg' = wg + 1
               /\ CopiesIn(MergeCall, inside') = CopiesIn(MergeCall, inside)
               /\ ev'.flag
          ELSE /\ outSegment' = outSegment
               /\ wg' = wg
               /\ ~ev'.flag]_vars

(* a Put found the active segment one frame over the ceiling of 1, rotated  *)
(* and returned while the merger it spawned has not taken the lock yet      *)
C20_Witness ==
    /\ ev.op = "put" /\ ev.err = "nil" /\ ev.flag
    /\ maxFileSize = 1
    /\ wg = 1 /\ CopiesIn(MergeCall, inside) = 0
    /\ outSegment = 10 /\ outOffset = 14 /\ Len(files[9]) = 14

(* C11: getMinByteServer returns a backend of the pool whose tally is at    *)
(* most the tally of every other backend, for every assignment of tallies;  *)
(* a backend with the strictly smallest tally is the one returned.          *)
C11_MinByteServer ==
    nreq > 0 =>
        /\ minServer \in serversPool
        /\ \A s \in serversPool : serverBytes[minServer] <= serverBytes[s]
        /\ \A s \in serversPool :
              (\A t \in serversPool \ {s} : serverBytes[s] < serverBytes[t]) => minServer = s

(* C12: three backends answer bodies of one non-zero size, all tallies     *)
(* start at zero, and five requests are made one after another: no request  *)
(* is served by the backend that served the request before it.              *)
C12_NoRepeatInARow ==
    [][LbReturns => lbev'.dst # lbev.dst]_vars

(* C13: once every request has completed, concurrent ones included, the     *)
(* tally of each backend is the sum of the byte counts of its responses     *)
(* that were copied to the client without error: none lost, none twice.     *)
C13_TallyIsSumOfCopies ==
    (lb = "up" /\ conns = EmptyBag) => serverBytes = streamed

(* C14: when forwarding to the chosen backend fails, the balancer answers   *)
(* 503, forward returns the error, and every tally is left as it was.       *)
C14_ForwardFailure ==
    [][ForwardFails =>
          /\ lbev'.status = 503
          /\ lbev'.err # "nil"
          /\ serverBytes' = serverBytes]_vars

(* a forward to a backend failed and was answered 503 after another backend *)
(* had bytes tallied                                                        *)
C14_Witness ==
    /\ lbev.do = "err" /\ lbev.status = 503
    /\ lbev.dst \in serversPool
    /\ serverBytes[lbev.dst] = 0
    /\ \E s \in serversPool : serverBytes[s] > 0

(* C21: recovery replays the segment files in ascending order of file name, *)
(* which is ascending order of segment id, so right after NewDb every       *)
(* indexed key points into the segment with the highest id that holds a     *)
(* record of it.                                                            *)
C21_RecoverHighestSegment ==
    (ev.op = "open" /\ engine = "up") =>
        \A k \in DOMAIN fileIndex : fileIndex[k] = Max(SegmentsWith(files, k))

(* C22: when a segment file ends in 1 to frame-length-minus-1 bytes of a    *)
(* torn frame, NewDb returns the corrupt-file error and no engine, and      *)
(* ends in no other way.                                                    *)
C22_TornTailIsCorrupt ==
    (ev.op = "open" /\ \E id \in DOMAIN files : TornTail(files[id], 0) > 0) =>
        (engine = "none" /\ ev.err = "io")

(* C23: after a merger run that merged, segment 0 holds exactly one frame   *)
(* for each key of the merge set (the files other than the active one),     *)
(* with the key's last value in the merge-set segment of the highest id.    *)
C23_MergedSegment ==
    [][(MergeReturns /\ ev'.flag) =>
          LET set == [id \in DOMAIN files \ {outSegment} |-> files[id]]
              keys == KeysIn(set)
              lastValue(k) ==
                  LET ents == ScanFile(set[Max(SegmentsWith(set, k))]).ents
                  IN ents[Max({j \in 1..Len(ents) : ents[j].key = k})].value
              merged == ScanFile(files'[0])
          IN /\ merged.st = "ok"
             /\ Len(merged.ents) = Cardinality(keys)
             /\ \A k \in keys :
                   \E i \in 1..Len(merged.ents) :
                      /\ merged.ents[i].key = k
                      /\ merged.ents[i].value = lastValue(k)]_vars

(* C24: a merger run changes the index entries only of keys whose segment   *)
(* index entry differs from outSegment: a run that merged sets them to      *)
(* segment 0 and the offset of the key's frame in the new segment 0; the    *)
(* entries of keys of the active segment, outSegment, outOffset and the     *)
(* writer handle are unchanged.                                             *)
C24_MergeIndexEffect ==
    [][MergeReturns =>
          /\ outSegment' = outSegment /\ outOffset' = outOffset /\ out' = out
          /\ DOMAIN fileIndex' = DOMAIN fileIndex
          /\ \A k \in DOMAIN fileIndex :
                IF fileIndex[k] = outSegment \/ ~ev'.flag
                THEN fileIndex'[k] = fileIndex[k] /\ index'[k] = index[k]
                ELSE /\ fileIndex'[k] = 0
                     /\ FrameAt(files'[0], index'[k]).ok
                     /\ FrameAt(files'[0], index'[k]).key = k]_vars

(* a merger merged while one key was indexed in the active segment and the  *)
(* other was moved to the second frame of segment 0                         *)
C24_Witness ==
    /\ ev.op = "merge" /\ ev.flag
    /\ \E k \in DOMAIN fileIndex : fileIndex[k] = outSegment
    /\ \E k \in DOMAIN fileIndex : fileIndex[k] = 0 /\ index[k] = 14

(* C26: the merge set of a merger run is every segment file except the      *)
(* active one; the run leaves the active file as it was, never deletes      *)
(* segment 0, and after a run that merged only segment 0 and the active     *)
(* segment remain.                                                          *)
C26_MergeSetExcludesActive ==
    [][MergeReturns =>
          LET names == GetFilesToMerge(files, outSegment) IN
          /\ {names[i] : i \in 1..Len(names)} = DOMAIN files \ {outSegment}
          /\ outSegment \in DOMAIN files'
          /\ files'[outSegment] = files[outSegment]
          /\ 0 \in DOMAIN files'
          /\ ev'.flag => DOMAIN files' = {0, outSegment}]_vars

(* a merger merged segments 0, 9 and 10 while segment 11 was active *)
C26_Witness ==
    /\ ev.op = "merge" /\ ev.flag
    /\ outSegment = 11
    /\ DOMAIN files = {0, 11}
    /\ files[11] # <<>>

(* C27: a merger run that finds at most two files in the directory changes  *)
(* nothing, and the merger is idempotent: a run that directly follows a     *)
(* completed run, with no Put in between, leaves the files and both         *)
(* indices as the first run left them.                                      *)
C27_MergeIdempotent ==
    [][(/\ MergeReturns
        /\ \/ Cardinality(DOMAIN files) <= 2
           \/ ev.op = "merge" /\ ev.err = "nil") =>
          /\ files' = files
          /\ index' = index
          /\ fileIndex' = fileIndex
          /\ ~ev'.flag]_vars

(* two rotations from segment 9 spawned two mergers; the first merged       *)
(* segments 0, 9 and 10 after both Puts, the second ran on segment 0 and    *)
(* the active segment 11                                                    *)
C27_Witness ==
    /\ ev.op = "merge" /\ ~ev.flag /\ ev.err = "nil"
    /\ nput = 2 /\ wg = 0
    /\ outSegment = 11
    /\ DOMAIN files = {0, 11}

(* C25: if a merger run stops because of an error, every record that was    *)
(* readable before the run is still present in some file on disk (no        *)
(* merge-set file is deleted before the new segment 0 is written).          *)
C25_MergerErrorKeepsRecords ==
    [][(MergeReturns /\ ev'.err # "nil") =>
          \A k \in Keys :
              GetResult(k).err = "nil" =>
                  \E id \in DOMAIN files' :
                      \E i \in 1..Len(ScanFile(files'[id]).ents) :
                          /\ ScanFile(files'[id]).ents[i].key = k
                          /\ ScanFile(files'[id]).ents[i].value = GetResult(k).value]_vars

(* the file f holds, from frame boundary off on, a whole frame of more than *)
(* bufSize bytes                                                            *)
RECURSIVE BigFrame(_, _)
BigFrame(f, off) ==
    IF Len(f) - off < 4 THEN FALSE
    ELSE LET size == Uint32(SubSeq(f, off + 1, off + 4)) IN
         IF size > bufSize THEN Len(f) - off >= size
         ELSE size > 0 /\ BigFrame(f, off + size)

(* C29: a record whose frame is larger than bufSize survives a reopen: the  *)
(* recovery scan reads the whole frame, so NewDb on a directory that holds  *)
(* such a record succeeds and the record is readable.                       *)
C29_BigRecordSurvivesReopen ==
    (ev.op = "open" /\ \E id \in DOMAIN files : BigFrame(files[id], 0)) =>
        /\ engine = "up"
        /\ \E k \in Keys : GetResult(k) = [err |-> "nil", value |-> BigValue]

(* a backend that is down has the strictly smallest tally *)
DownSmallest(d) ==
    /\ d \in serversPool \ listening
    /\ \A s \in serversPool \ {d} : serverBytes[d] < serverBytes[s]

(* C30: selection depends only on the tallies: a health probe changes no    *)
(* tally and removes no backend from serverBytes, and while a backend that  *)
(* fails every forward has the strictly smallest tally, every request is    *)
(* given to it and answered 503, which leaves its tally as it was.          *)
C30_UnhealthyStaysSelected ==
    [][/\ DOMAIN serverBytes' = serversPool
       /\ probe' # probe => serverBytes' = serverBytes
       /\ \A d \in serversPool :
            (DownSmallest(d) /\ nreq' = nreq + 1) => minServer' = d
       /\ \A d \in serversPool :
            (DownSmallest(d) /\ LbReturns /\ lbev'.dst = d) =>
                 /\ lbev'.status = 503
                 /\ serverBytes' = serverBytes
                 /\ DownSmallest(d)']_vars

(* the two backends that listen have served a request each, the third and   *)
(* the fourth request went to the backend that is down, which was probed    *)
(* unhealthy, and were answered 503                                         *)
C30_Witness ==
    /\ nreq = 4 /\ conns = EmptyBag
    /\ lbev.status = 503
    /\ DownSmallest(lbev.dst)
    /\ minServer = lbev.dst
    /\ probe = [dst |-> lbev.dst, ok |-> FALSE]
    /\ \A s \in listening : serverBytes[s] = 1

====
